---- MODULE Spec2Model ----
(***************************************************************************)
(* Agent registry and lifecycle manager (app/agents/agent_manager.py) with *)
(* the agent variants it instantiates, run on one asyncio event loop: an   *)
(* action is the code one task runs between two suspension points.         *)
(***************************************************************************)
EXTENDS Integers, Sequences, FiniteSets, TLC

\* ------------------------------------------------------------------ bounds
MaxCalls == 4    \* register_agent, invoke_agent and terminate_agent calls in a run
MaxLLMCalls == 3    \* chat_completion calls, constructions and save_config calls in a run

\* ------------------------------------------------------------------ inputs
Types == {"coder", "computer", "assistant", "custom"}

\* The three variants of the repository, and two conforming subclasses of
\* BaseAgent: one keeping the default auto_terminate, one overriding it.
Variants == {"CoderAgent", "ComputerAgent", "AssistantAgent", "PlainAgent", "AutoAgent"}

CtxActions == {"code_generation", "code_execution"}

\* What register_agent is called with after construction: a registered and a
\* new type, each with a variant that can be constructed.
RegisterTypes == {"coder", "custom"}
RegisterVariants == {"PlainAgent", "AutoAgent"}

NoClass == "none"    \* key absent from agent_classes
NoAgent == 0         \* key absent from active_agents

VARIABLES
    agent_classes,   \* AgentManager.agent_classes: type -> variant
    active_agents,   \* AgentManager.active_agents: type -> instance
    instances,       \* every instance constructed so far, by identity
    calls,           \* the invoke_agent / terminate_agent calls, by start order
    reg_log,         \* history: the register_agent calls, in order
    removals,        \* history: per type, entries deleted from active_agents
    completions,     \* the LLMController.chat_completion calls, by start order
    event_handlers,  \* EventManager.event_handlers: event type -> handler list
    emits,           \* the EventManager.emit / emit_sync calls, by start order
    bus_calls,       \* history: the subscribe / unsubscribe calls, in order
    extractions,      \* history: the extract_agent_action calls, in order
    settings,        \* LLMController.config.settings['llm']
    clients,         \* LLMController.clients: the providers that have a client
    current_provider,\* LLMController.current_provider
    current_model,   \* LLMController.current_model
    config_calls,     \* history: the number of configuration calls and the last one
    conversation_history,\* AppController.conversation_history
    submits,          \* the process_user_input calls: their number and the latest one
    coder_agent,      \* one CoderAgent instance, its working directory and its child processes
    computer_agent   \* one ComputerAgent instance and the child processes it spawned

agent_vars == <<agent_classes, active_agents, instances, calls, reg_log, removals>>

llm_vars == <<completions>>

bus_vars == <<event_handlers, emits, bus_calls>>

intent_vars == <<extractions>>

provider_vars == <<settings, clients, current_provider, current_model, config_calls>>

input_vars == <<conversation_history, submits>>

coder_vars == <<coder_agent>>

computer_vars == <<computer_agent>>

vars == <<agent_vars, llm_vars, bus_vars, intent_vars, provider_vars, input_vars, coder_vars, computer_vars>>

\* ------------------------------------------------------------ the variants
\* agent_class(self.event_manager): ComputerAgent and AssistantAgent define no
\* __init__, so the one-argument call raises TypeError.
CtorAccepts(v) == v \notin {"ComputerAgent", "AssistantAgent"}

\* BaseAgent.auto_terminate returns False; no variant of the repository
\* overrides it.
AutoTerminate(v) == v = "AutoAgent"

\* initialize() of the repository's variants has no await in it.
InitializeSuspends(v) == v \in {"PlainAgent", "AutoAgent"}

\* cleanup(): CoderAgent reads self.processes, which it never sets;
\* ComputerAgent reads self.processes and AssistantAgent self.logger, both set
\* by initialize().
CleanupRaises(inst) ==
    \/ inst.variant = "CoderAgent"
    \/ inst.variant \in {"ComputerAgent", "AssistantAgent"} /\ inst.init # "done"

\* cleanup() of ComputerAgent and AssistantAgent has no await in it.
CleanupSuspends(v) == v \notin {"ComputerAgent", "AssistantAgent"}

\* process(context) up to its first suspension point.
ProcessBegin(inst, act) ==
    CASE inst.variant = "CoderAgent" ->
            IF act = "code_execution"
            THEN IF inst.init = "done" THEN "suspend" ELSE "TypeError"
            ELSE "return"
      [] inst.variant \in {"ComputerAgent", "AssistantAgent"} -> "return"
      [] OTHER -> "suspend"

\* ------------------------------------------------------------ the registry
\* Mutant: the first registration of a type wins.
Registered_KeepFirst(classes, T, V) ==
    IF classes[T] # NoClass THEN classes ELSE [classes EXCEPT ![T] = V]

\* register_agent: self.agent_classes[agent_type] = agent_class
Registered(classes, T, V) == [classes EXCEPT ![T] = V]

RECURSIVE RegisterAll(_, _)
RegisterAll(classes, log) ==
    IF log = <<>> THEN classes
    ELSE RegisterAll(Registered(classes, Head(log)[1], Head(log)[2]), Tail(log))

\* AppController._register_default_agents
DefaultAgents ==
    << <<"coder", "CoderAgent">>, <<"computer", "ComputerAgent">>,
       <<"assistant", "AssistantAgent">> >>

\* AgentManager.__init__, then AppController._register_default_agents
AgentInit ==
    /\ agent_classes = RegisterAll([T \in Types |-> NoClass], DefaultAgents)
    /\ active_agents = [T \in Types |-> NoAgent]
    /\ instances = <<>>
    /\ calls = <<>>
    /\ reg_log = DefaultAgents
    /\ removals = [T \in Types |-> 0]

\* The calls made on the manager since the controller was constructed.
CallsMade == Len(calls) + Len(reg_log) - Len(DefaultAgents)

RegisterAgent(T, V) ==
    /\ CallsMade < MaxCalls
    /\ agent_classes' = Registered(agent_classes, T, V)
    /\ reg_log' = Append(reg_log, <<T, V>>)
    /\ UNCHANGED <<active_agents, instances, calls, removals>>
    /\ UNCHANGED <<llm_vars, bus_vars, intent_vars, provider_vars, input_vars, coder_vars, computer_vars>>

\* ------------------------------------------------------------ the lifecycle
NewCall(op, T) ==
    [op |-> op, type |-> T, pc |-> "start", agent |-> NoAgent,
     init_seen |-> "none", cleaned |-> NoAgent, terminated |-> "none",
     epoch |-> removals[T], class |-> agent_classes[T], result |-> "none"]

Raise(c, e) == [c EXCEPT !.pc = "done", !.result = e]

Return(c, v) == [c EXCEPT !.pc = "done", !.result = v]

Step(active, insts, rem, c) ==
    [active |-> active, insts |-> insts, removals |-> rem, call |-> c]

\* Mutant: invoke_agent without its membership test.
UnknownType_Unchecked(T) == FALSE

\* invoke_agent: if agent_type not in self.agent_classes
UnknownType(T) == agent_classes[T] = NoClass

\* Mutant: _get_or_create_agent never finds the stored instance.
ReusesInstance_Never(active, T) == FALSE

\* Mutant: the stored instance is reused only while its class is the one
\* registered.
ReusesInstance_SameClass(active, T) ==
    active[T] # NoAgent /\ instances[active[T]].variant = agent_classes[T]

\* _get_or_create_agent: if agent_type in self.active_agents
ReusesInstance(active, T) == active[T] # NoAgent

\* Mutant: initialize() is scheduled again when the stored instance is reused.
GetExisting_Reschedule(insts, a) == [insts EXCEPT ![a].scheduled = @ + 1]

\* _get_or_create_agent: return self.active_agents[agent_type]
GetExisting(insts, a) == insts

\* _get_or_create_agent: construct, create_task(agent.initialize()), store
NewInstance(T, V) ==
    [type |-> T, variant |-> V, init |-> "scheduled", scheduled |-> 1, cleanups |-> 0]

\* Mutant: terminate_agent tests the registry instead of the live map.
NoActiveToTerminate_ByClass(active, T) == agent_classes[T] = NoClass

\* terminate_agent: if agent_type not in self.active_agents
NoActiveToTerminate(active, T) == active[T] = NoAgent

\* What terminate_agent hands back: its own caller gets the boolean;
\* invoke_agent discards it and returns the response of process().
TerminateResult(c, b) ==
    IF c.op = "terminate"
    THEN Return([c EXCEPT !.terminated = b], b)
    ELSE Return([c EXCEPT !.terminated = b], "response")

\* terminate_agent after cleanup() returned: del, log, return True
TerminateEnd(active, insts, rem, c) ==
    IF active[c.type] = NoAgent
    THEN Step(active, insts, rem, Raise(c, "KeyError"))
    ELSE Step([active EXCEPT ![c.type] = NoAgent], insts,
              [rem EXCEPT ![c.type] = @ + 1], TerminateResult(c, "True"))

\* terminate_agent up to the point where cleanup() suspends
TerminateBegin(active, insts, rem, c) ==
    IF NoActiveToTerminate(active, c.type)
    THEN Step(active, insts, rem, TerminateResult(c, "False"))
    ELSE IF active[c.type] = NoAgent
    THEN Step(active, insts, rem, Raise(c, "KeyError"))
    ELSE LET a == active[c.type]
             called == [insts EXCEPT ![a].cleanups = @ + 1]
             c1 == [c EXCEPT !.cleaned = a]
         IN  IF CleanupRaises(insts[a])
             THEN Step(active, called, rem, Raise(c1, "AttributeError"))
             ELSE IF CleanupSuspends(insts[a].variant)
             THEN Step(active, called, rem, [c1 EXCEPT !.pc = "cleanup"])
             ELSE TerminateEnd(active, called, rem, c1)

\* invoke_agent after process() returned: auto_terminate check, return response
InvokeAfterProcess(active, insts, rem, c) ==
    IF AutoTerminate(insts[c.agent].variant)
    THEN TerminateBegin(active, insts, rem, c)
    ELSE Step(active, insts, rem, Return(c, "response"))

\* invoke_agent from "response = await agent.process(context)" on
InvokeProcess(active, insts, rem, c, act) ==
    LET c1 == [c EXCEPT !.init_seen = insts[c.agent].init]
        out == ProcessBegin(insts[c.agent], act)
    IN  CASE out = "suspend" -> Step(active, insts, rem, [c1 EXCEPT !.pc = "process"])
          [] out = "return" -> InvokeAfterProcess(active, insts, rem, c1)
          [] OTHER -> Step(active, insts, rem, Raise(c1, out))

\* invoke_agent from its first line to its first suspension point
InvokeBegin(c, act) ==
    LET T == c.type IN
    IF UnknownType(T)
    THEN Step(active_agents, instances, removals, Raise(c, "ValueError"))
    ELSE IF ReusesInstance(active_agents, T)
    THEN LET a == active_agents[T]
         IN  InvokeProcess(active_agents, GetExisting(instances, a), removals,
                           [c EXCEPT !.agent = a], act)
    ELSE IF agent_classes[T] = NoClass
    THEN Step(active_agents, instances, removals, Raise(c, "KeyError"))
    ELSE IF ~CtorAccepts(agent_classes[T])
    THEN Step(active_agents, instances, removals, Raise(c, "TypeError"))
    ELSE LET a == Len(instances) + 1
         IN  InvokeProcess([active_agents EXCEPT ![T] = a],
                           Append(instances, NewInstance(T, agent_classes[T])),
                           removals, [c EXCEPT !.agent = a], act)

Apply(k, r) ==
    /\ active_agents' = r.active
    /\ instances' = r.insts
    /\ removals' = r.removals
    /\ calls' = IF k > Len(calls) THEN Append(calls, r.call)
                ELSE [calls EXCEPT ![k] = r.call]
    /\ UNCHANGED <<agent_classes, reg_log>>
    /\ UNCHANGED <<llm_vars, bus_vars, intent_vars, provider_vars, input_vars, coder_vars, computer_vars>>

InvokeAgent(T, act) ==
    /\ CallsMade < MaxCalls
    /\ Apply(Len(calls) + 1, InvokeBegin(NewCall("invoke", T), act))

ProcessReturn(k) ==
    /\ calls[k].pc = "process"
    /\ Apply(k, InvokeAfterProcess(active_agents, instances, removals, calls[k]))

TerminateAgent(T) ==
    /\ CallsMade < MaxCalls
    /\ Apply(Len(calls) + 1,
             TerminateBegin(active_agents, instances, removals,
                            NewCall("terminate", T)))

CleanupReturn(k) ==
    /\ calls[k].pc = "cleanup"
    /\ Apply(k, TerminateEnd(active_agents, instances, removals, calls[k]))

\* The task made by asyncio.create_task(agent.initialize()) gets its turn.
InitializeRun(i) ==
    /\ instances[i].init = "scheduled"
    /\ instances' = [instances EXCEPT ![i].init =
                        IF InitializeSuspends(instances[i].variant)
                        THEN "running" ELSE "done"]
    /\ UNCHANGED <<agent_classes, active_agents, calls, reg_log, removals>>
    /\ UNCHANGED <<llm_vars, bus_vars, intent_vars, provider_vars, input_vars, coder_vars, computer_vars>>

InitializeFinish(i) ==
    /\ instances[i].init = "running"
    /\ instances' = [instances EXCEPT ![i].init = "done"]
    /\ UNCHANGED <<agent_classes, active_agents, calls, reg_log, removals>>
    /\ UNCHANGED <<llm_vars, bus_vars, intent_vars, provider_vars, input_vars, coder_vars, computer_vars>>

\* ------------------------------------------------------ the LLM controller
\* chat_completion: max_retries = 3
max_retries == 3

\* chat_completion: await asyncio.sleep(1 * retry_count)
BackoffUnit == 1

\* What _send_request ends with: a response, or an exception.
ProviderOutcomes == {"response", "TimeoutError", "ConnectionError", "APIError"}

\* Mutant: every exception is retried.
Transient_Any(e) == TRUE

\* chat_completion: except (TimeoutError, ConnectionError)
Transient(e) == e \in {"TimeoutError", "ConnectionError"}

\* Mutant: the loop test is off by one.
RetryAllowed_OneMore(n) == n <= max_retries

\* chat_completion: while retry_count < max_retries
RetryAllowed(n) == n < max_retries

\* Mutant: the delay is taken before retry_count is incremented.
BackoffDelay_Before(n) == BackoffUnit * (n - 1)

\* chat_completion: asyncio.sleep(1 * retry_count), retry_count already incremented
BackoffDelay(n) == BackoffUnit * n

\* ---- the providers
Providers == {"openai", "anthropic"}

\* The client libraries the imports at the top of llm_controller.py found:
\* OPENAI_AVAILABLE is True, ANTHROPIC_AVAILABLE is False.
Installed == {"openai"}

DefaultModel(p) == IF p = "openai" THEN "gpt-4o" ELSE "claude-3-opus"

\* The temperature a configuration holds, in tenths: 0.7 is the default, and
\* the configurations that name the other provider hold 0.2.
TemperatureWith(p) == IF p = "openai" THEN 7 ELSE 2

\* The llm section of a configuration: the provider and model to use, the
\* temperature, and the providers whose api key is a non-empty string.
LLMSettings ==
    {[provider |-> p, model |-> DefaultModel(p), temperature |-> TemperatureWith(p),
      keys |-> ks] :
        p \in Providers, ks \in {{}, {"openai", "anthropic"}}}

\* Config._create_default_config: every api key is the empty string.
DefaultSettings ==
    [provider |-> "openai", model |-> "gpt-4o", temperature |-> 7, keys |-> {}]

\* _initialize_providers: a client is stored for a provider whose library is
\* installed and whose key is set; nothing is taken out of self.clients.
InitializeProviders(cl, S) ==
    cl \cup {p \in Providers : p \in Installed /\ p \in S.keys}

NoOverride == "none"

\* The provider argument of the chat_completion calls made: none, or the
\* provider a fresh configuration does not name.
Overrides == {NoOverride, "anthropic"}

\* Mutant: _send_request goes to the backend whatever the provider's state.
SendBegin_Unchecked(prov, cl) == "call"

\* _send_request and _send_<provider>_request up to the backend call: the
\* availability flag is tested, then self.clients[provider] is looked up.
SendBegin(prov, cl) ==
    IF prov \notin Installed THEN "ImportError"
    ELSE IF prov \notin cl THEN "KeyError"
    ELSE "call"

LLMCallsMade == Len(completions) + config_calls.n

\* LLMController.__init__ with the default configuration; no request is started.
LLMInit == completions = <<>>

ProviderInit ==
    /\ settings = DefaultSettings
    /\ clients = InitializeProviders({}, DefaultSettings)
    /\ current_provider = DefaultSettings.provider
    /\ current_model = DefaultSettings.model
    /\ config_calls = [n |-> 0, last |-> "none"]

\* The provider, model and temperature a call without overrides resolves to.
CurrentDefaults ==
    [provider |-> current_provider, model |-> current_model,
     temperature |-> settings.temperature]

\* chat_completion: provider = provider or self.current_provider, and the same
\* for the model; the temperature is that of the settings. targets and
\* defaults are kept per attempt: what _send_request was called with, and what
\* the defaults were then.
NewCompletion(po) ==
    [pc |-> "start", retry_count |-> 0, outcomes |-> <<>>, sleeps |-> <<>>,
     events |-> <<>>, result |-> "none",
     provider |-> IF po = NoOverride THEN current_provider ELSE po,
     model |-> IF po = NoOverride THEN current_model ELSE DefaultModel(po),
     temperature |-> settings.temperature,
     overridden |-> po # NoOverride,
     targets |-> <<>>, defaults |-> <<>>,
     usable |-> <<>>, reached |-> <<>>]

\* Mutant: every attempt resolves the defaults anew.
AttemptTarget_Current(c) == CurrentDefaults

\* _send_request(provider, model, messages, temperature): the arguments are the
\* local variables bound before the loop
AttemptTarget(c) ==
    [provider |-> c.provider, model |-> c.model, temperature |-> c.temperature]

\* chat_completion from the end of _send_request to the next suspension point.
Reply(c, out) ==
    LET c1 == [c EXCEPT !.outcomes = Append(@, out)] IN
    IF out = "response"
    THEN [c1 EXCEPT !.events = Append(@, "llm_request_complete"),
                    !.pc = "done", !.result = "response"]
    ELSE IF Transient(out)
    THEN [c1 EXCEPT !.retry_count = @ + 1,
                    !.sleeps = Append(@, BackoffDelay(c.retry_count + 1)),
                    !.pc = "sleeping"]
    ELSE [c1 EXCEPT !.events = Append(@, "llm_error"),
                    !.pc = "done", !.result = out]

\* chat_completion from the loop test to the await of the backend call, or to
\* the raise that follows the loop. usable and reached are kept per attempt:
\* whether the provider had its library and a client, and whether the backend
\* was called.
Attempt(c) ==
    IF RetryAllowed(c.retry_count)
    THEN LET target == AttemptTarget(c)
             begun == SendBegin(target.provider, clients)
             c1 == [c EXCEPT !.events = Append(@, "llm_request_start"),
                             !.targets = Append(@, target),
                             !.defaults = Append(@, CurrentDefaults),
                             !.usable = Append(@, c.provider \in Installed
                                                  /\ c.provider \in clients),
                             !.reached = Append(@, begun = "call")]
         IN  IF begun = "call" THEN [c1 EXCEPT !.pc = "sending"]
             ELSE Reply(c1, begun)
    ELSE [c EXCEPT !.pc = "done", !.result = "Exhausted"]

ChatCompletion(po) ==
    /\ LLMCallsMade < MaxLLMCalls
    /\ completions' = Append(completions, Attempt(NewCompletion(po)))
    /\ UNCHANGED <<agent_vars, bus_vars, intent_vars, provider_vars, input_vars, coder_vars, computer_vars>>

ProviderReplies(k, out) ==
    /\ completions[k].pc = "sending"
    /\ completions' = [completions EXCEPT ![k] = Reply(completions[k], out)]
    /\ UNCHANGED <<agent_vars, bus_vars, intent_vars, provider_vars, input_vars, coder_vars, computer_vars>>

BackoffElapsed(k) ==
    /\ completions[k].pc = "sleeping"
    /\ completions' = [completions EXCEPT ![k] = Attempt(completions[k])]
    /\ UNCHANGED <<agent_vars, bus_vars, intent_vars, provider_vars, input_vars, coder_vars, computer_vars>>

ConfigCall(op) == [n |-> config_calls.n + 1, last |-> op]

\* LLMController(event_manager) constructed where the configuration file holds
\* S: the first thing that happens to the controller
Construct(S) ==
    /\ LLMCallsMade = 0
    /\ settings' = S
    /\ clients' = InitializeProviders({}, S)
    /\ current_provider' = S.provider
    /\ current_model' = S.model
    /\ config_calls' = ConfigCall("construct")
    /\ UNCHANGED <<agent_vars, llm_vars, bus_vars, intent_vars, input_vars, coder_vars, computer_vars>>

\* self.config.save_config(S) called by the owner of the controller
SaveConfig(S) ==
    /\ LLMCallsMade < MaxLLMCalls
    /\ settings' = S
    /\ config_calls' = ConfigCall("save_config")
    /\ UNCHANGED <<clients, current_provider, current_model>>
    /\ UNCHANGED <<agent_vars, llm_vars, bus_vars, intent_vars, input_vars, coder_vars, computer_vars>>

\* _on_config_updated(event_type, data), data holding the key 'llm' or not.
\* The event follows a save_config, once, and is not counted as a call.
OnConfigUpdated(has_llm) ==
    /\ config_calls.last = "save_config"
    /\ IF has_llm
       THEN /\ clients' = InitializeProviders(clients, settings)
            /\ current_provider' = settings.provider
            /\ current_model' = settings.model
       ELSE UNCHANGED <<clients, current_provider, current_model>>
    /\ config_calls' = [config_calls EXCEPT
                            !.last = IF has_llm THEN "config_updated" ELSE "other_update"]
    /\ UNCHANGED settings
    /\ UNCHANGED <<agent_vars, llm_vars, bus_vars, intent_vars, input_vars, coder_vars, computer_vars>>

LLMNext ==
    \/ \E po \in Overrides : ChatCompletion(po)
    \/ \E k \in DOMAIN completions, out \in ProviderOutcomes : ProviderReplies(k, out)
    \/ \E k \in DOMAIN completions : BackoffElapsed(k)
    \/ \E S \in LLMSettings : Construct(S)
    \/ \E S \in LLMSettings : SaveConfig(S)
    \/ \E has_llm \in BOOLEAN : OnConfigUpdated(has_llm)

\* ------------------------------------------------------------ the event bus
\* EventManager: event_handlers maps an event name to the list of its handlers.
\* Each list entry carries the ordinal of the subscribe call that appended it
\* (id), which the program does not store; it tells two subscriptions of one
\* handler apart and records the subscription order.

MaxBusCalls == 4

Events == {"config_updated", "llm_error"}

\* _on_config_updated is the coroutine LLMController subscribes; the others are
\* the kinds of callable a subscriber may pass: a plain function that raises, a
\* coroutine function that suspends, and a plain function that unsubscribes
\* itself when it is called.
Handlers == {"_on_config_updated", "failing", "suspending", "once"}

IsCoroutine(h) == h \in {"_on_config_updated", "suspending"}
HandlerSuspends(h) == h = "suspending"
HandlerRaises(h) == h = "failing"
HandlerUnsubscribes(h) == h = "once"

HandlerIn(h, lst) == \E j \in DOMAIN lst : lst[j].handler = h

Subscribed_Unguarded(e, h, eh) == TRUE

\* the guard of unsubscribe
Subscribed(e, h, eh) == e \in DOMAIN eh /\ HandlerIn(h, eh[e])

FirstIndex(lst, h) ==
    CHOOSE j \in DOMAIN lst :
        lst[j].handler = h /\ \A i \in 1..(j - 1) : lst[i].handler # h

\* list.remove(h): the first occurrence goes, the rest keep their order
Removed(lst, h) ==
    LET j == FirstIndex(lst, h) IN SubSeq(lst, 1, j - 1) \o SubSeq(lst, j + 1, Len(lst))

\* unsubscribe(e, h): the dict lookup raises KeyError on a missing key and
\* list.remove raises ValueError on a missing element
Unsubscribed(e, h, eh) ==
    IF Subscribed(e, h, eh)
    THEN IF e \notin DOMAIN eh THEN [eh |-> eh, result |-> "KeyError"]
         ELSE IF ~HandlerIn(h, eh[e]) THEN [eh |-> eh, result |-> "ValueError"]
         ELSE [eh |-> [eh EXCEPT ![e] = Removed(@, h)], result |-> "ok"]
    ELSE [eh |-> eh, result |-> "ok"]

Inserted_AtFront(lst, x) == <<x>> \o lst

Inserted(lst, x) == Append(lst, x)

\* subscribe(e, h) as the n-th call of the bus
SubscribedTo(e, h, n, eh) ==
    [x \in DOMAIN eh \cup {e} |->
        IF x = e
        THEN Inserted(IF e \in DOMAIN eh THEN eh[e] ELSE <<>>,
                      [handler |-> h, id |-> n])
        ELSE eh[x]]

\* LLMController._register_events
BusInit ==
    /\ event_handlers =
          [e \in {"config_updated"} |-> <<[handler |-> "_on_config_updated", id |-> 0]>>]
    /\ emits = <<>>
    /\ bus_calls = [n |-> 0, removed |-> 0,
                    last |-> [op |-> "none", event |-> "none", handler |-> "none",
                              result |-> "none"]]

\* what calling handler h for event e does to the subscriptions
HandlerEffect(h, e, eh) ==
    IF HandlerUnsubscribes(h) THEN Unsubscribed(e, h, eh).eh ELSE eh

NewEmit(e, sync, eh) ==
    [event |-> e, sync |-> sync, idx |-> 0, invoked |-> <<>>, errors |-> 0,
     snapshot |-> IF e \in DOMAIN eh THEN eh[e] ELSE <<>>,
     removed_before |-> bus_calls.removed, pc |-> "running"]

\* The for loop of emit / emit_sync over the live list: the list iterator keeps
\* an index and stops when the index reaches the current length. It runs until
\* the loop ends or, in emit, an awaited handler suspends.
RECURSIVE RunHandlers(_, _)
RunHandlers(eh, em) ==
    LET lst == eh[em.event] IN
    IF em.idx >= Len(lst)
    THEN [eh |-> eh, em |-> [em EXCEPT !.pc = "done"]]
    ELSE LET x == lst[em.idx + 1]
             em1 == [em EXCEPT !.idx = @ + 1,
                               !.invoked = Append(@, x),
                               !.errors = IF HandlerRaises(x.handler) THEN @ + 1 ELSE @]
         IN IF IsCoroutine(x.handler) /\ em.sync
            THEN RunHandlers(eh, em1)
            ELSE IF HandlerSuspends(x.handler)
            THEN [eh |-> eh, em |-> [em1 EXCEPT !.pc = "awaiting"]]
            ELSE RunHandlers(HandlerEffect(x.handler, em.event, eh), em1)

Emitted(e, sync, eh) ==
    IF e \notin DOMAIN eh
    THEN [eh |-> eh, em |-> [NewEmit(e, sync, eh) EXCEPT !.pc = "done"]]
    ELSE RunHandlers(eh, NewEmit(e, sync, eh))

BusCall(op, e, h, result, removed) ==
    [n |-> bus_calls.n + 1, removed |-> bus_calls.removed + removed,
     last |-> [op |-> op, event |-> e, handler |-> h, result |-> result]]

Subscribe(e, h) ==
    /\ bus_calls.n < MaxBusCalls
    /\ event_handlers' = SubscribedTo(e, h, bus_calls.n + 1, event_handlers)
    /\ bus_calls' = BusCall("subscribe", e, h, "ok", 0)
    /\ UNCHANGED <<emits, agent_vars, llm_vars, intent_vars, provider_vars, input_vars, coder_vars, computer_vars>>

Unsubscribe(e, h) ==
    /\ bus_calls.n < MaxBusCalls
    /\ LET r == Unsubscribed(e, h, event_handlers) IN
       /\ event_handlers' = r.eh
       /\ bus_calls' = BusCall("unsubscribe", e, h, r.result,
                               IF r.eh # event_handlers THEN 1 ELSE 0)
    /\ UNCHANGED <<emits, agent_vars, llm_vars, intent_vars, provider_vars, input_vars, coder_vars, computer_vars>>

EmitCall(e, sync) ==
    /\ bus_calls.n < MaxBusCalls
    /\ LET r == Emitted(e, sync, event_handlers) IN
       /\ event_handlers' = r.eh
       /\ emits' = Append(emits, r.em)
    /\ bus_calls' = BusCall(IF sync THEN "emit_sync" ELSE "emit", e, "none", "ok", 0)
    /\ UNCHANGED <<agent_vars, llm_vars, intent_vars, provider_vars, input_vars, coder_vars, computer_vars>>

Emit(e) == EmitCall(e, FALSE)

EmitSync(e) == EmitCall(e, TRUE)

\* the awaited handler of emit k finishes and the loop goes on
HandlerReturns(k) ==
    /\ emits[k].pc = "awaiting"
    /\ LET r == RunHandlers(event_handlers, [emits[k] EXCEPT !.pc = "running"]) IN
       /\ event_handlers' = r.eh
       /\ emits' = [emits EXCEPT ![k] = r.em]
    /\ UNCHANGED <<bus_calls, agent_vars, llm_vars, intent_vars, provider_vars, input_vars, coder_vars, computer_vars>>

BusNext ==
    \/ \E e \in Events, h \in Handlers : Subscribe(e, h)
    \/ \E e \in Events, h \in Handlers : Unsubscribe(e, h)
    \/ \E e \in Events : Emit(e)
    \/ \E e \in Events : EmitSync(e)
    \/ \E k \in DOMAIN emits : HandlerReturns(k)

\* ------------------------------------------------------- intent extraction
\* LLMController.extract_agent_action. A reply text is a sequence of characters,
\* each a one-letter string, the backtick being written "backtick";
\* the replies considered are made of at most MaxWords words of Vocabulary
\* joined by blanks.

MaxWords == 3

Vocabulary == {"fence", "Python", "Function", "files", "France"}

Spelling(w) ==
    CASE w = "fence" -> <<"backtick", "backtick", "backtick">>
      [] w = "Python" -> <<"P", "y", "t", "h", "o", "n">>
      [] w = "Function" -> <<"F", "u", "n", "c", "t", "i", "o", "n">>
      [] w = "files" -> <<"f", "i", "l", "e", "s">>
      [] w = "France" -> <<"F", "r", "a", "n", "c", "e">>
      [] w = "cd" -> <<"c", "d">>
      [] w = "docs" -> <<"d", "o", "c", "s">>
      [] w = "nowhere" -> <<"n", "o", "w", "h", "e", "r", "e">>
      [] w = "RM" -> <<"R", "M">>
      [] w = "-RF" -> <<"-", "R", "F">>
      [] w = "information" -> <<"i", "n", "f", "o", "r", "m", "a", "t", "i", "o", "n">>

Replies == UNION {[1..n -> Vocabulary] : n \in 0..MaxWords}

RECURSIVE Joined(_)
Joined(ws) ==
    IF ws = <<>> THEN <<>>
    ELSE IF Len(ws) = 1 THEN Spelling(ws[1])
    ELSE Spelling(ws[1]) \o <<" ">> \o Joined(Tail(ws))

\* str.lower on one character
LowerChar(ch) ==
    CASE ch = "P" -> "p"
      [] ch = "F" -> "f"
      [] ch = "R" -> "r"
      [] ch = "M" -> "m"
      [] OTHER -> ch

Lowered_AsIs(text) == text

Lowered(text) == [j \in DOMAIN text |-> LowerChar(text[j])]

\* kw in text
Contains(text, kw) ==
    \E i \in 0..(Len(text) - Len(kw)) : SubSeq(text, i + 1, i + Len(kw)) = kw

FenceMark == <<"backtick", "backtick", "backtick">>

Languages ==
    { <<"p", "y", "t", "h", "o", "n">>,
      <<"j", "a", "v", "a", "s", "c", "r", "i", "p", "t">>,
      <<"j", "a", "v", "a">>,
      <<"c", "+", "+">> }

CoderKeywords ==
    { <<"c", "o", "d", "e">>,
      <<"f", "u", "n", "c", "t", "i", "o", "n">>,
      <<"c", "l", "a", "s", "s">>,
      <<"p", "r", "o", "g", "r", "a", "m", "m", "i", "n", "g">> }

ComputerKeywords ==
    { <<"f", "i", "l", "e">>,
      <<"d", "i", "r", "e", "c", "t", "o", "r", "y">>,
      <<"f", "o", "l", "d", "e", "r">>,
      <<"e", "x", "e", "c", "u", "t", "e">>,
      <<"c", "o", "m", "m", "a", "n", "d">>,
      <<"t", "e", "r", "m", "i", "n", "a", "l">> }

CoderCriteria(content) ==
    LET content_lower == Lowered(content) IN
    \/ /\ Contains(content, FenceMark)
       /\ \E lang \in Languages : Contains(content_lower, lang)
    \/ \E keyword \in CoderKeywords : Contains(content_lower, keyword)

ComputerCriteria(content) ==
    \E keyword \in ComputerKeywords : Contains(Lowered(content), keyword)

Chosen_ComputerFirst(coder, computer) ==
    IF computer THEN "computer" ELSE IF coder THEN "coder" ELSE "assistant"

\* the if / elif / else chain
Chosen(coder, computer) ==
    IF coder THEN "coder" ELSE IF computer THEN "computer" ELSE "assistant"

ActionOf(agent_type) ==
    CASE agent_type = "coder" -> "analyze_code"
      [] agent_type = "computer" -> "process_command"
      [] agent_type = "assistant" -> "provide_information"

extract_agent_action(content) ==
    LET agent_type == Chosen(CoderCriteria(content), ComputerCriteria(content)) IN
    [agent_type |-> agent_type, action |-> ActionOf(agent_type), content |-> content]

IntentInit == extractions = <<>>

\* One call of extract_agent_action on the reply made of the words ws; the
\* words are kept beside the result.
ExtractAgentAction(ws) ==
    /\ extractions' = <<[words |-> ws, info |-> extract_agent_action(Joined(ws))]>>
    /\ UNCHANGED <<agent_vars, llm_vars, bus_vars, provider_vars, input_vars, coder_vars, computer_vars>>

IntentNext == \E ws \in Replies : ExtractAgentAction(ws)

\* ------------------------------------------------------- the controller
\* AppController.process_user_input, run one call at a time. A turn of the
\* history is its role and the ordinal of its append (id), which stands for
\* its content.

MaxInputs == 6

\* process_user_input: max_history = 10
max_history == 10

SystemTurn == [role |-> "system", id |-> 0]

\* seq[-n:]
LastN(seq, n) == SubSeq(seq, IF Len(seq) > n THEN Len(seq) - n + 1 ELSE 1, Len(seq))

\* Mutant: the stored history is cut to the window sent to the provider.
Remembered_Truncated(history, turn) == LastN(Append(history, turn), max_history)

\* self.conversation_history.append(turn)
Remembered(history, turn) == Append(history, turn)

\* What chat_completion ends with: a response whose content is one of these
\* replies, or an exception.
ReplyTexts == {<<"France">>, <<"Function">>, <<"files">>}

LLMResults ==
    {[kind |-> "response", words |-> ws] : ws \in ReplyTexts}
        \cup {[kind |-> "raise", words |-> <<>>]}

\* Mutant: the handler catches the unknown-type error only.
Caught_ValueErrorOnly(e) == e = "ValueError"

\* process_user_input: except Exception
Caught(e) == TRUE

NoResult == [type |-> "none", agent_type |-> "none", content |-> <<>>, agent_result |-> "none"]

InputInit ==
    /\ conversation_history = <<>>
    /\ submits = [n |-> 0, pc |-> "idle", next_id |-> 1, first_id |-> 1,
                  user |-> 0, messages |-> <<>>, built_first |-> 1,
                  intent |-> "none", action |-> "none", dispatches |-> 0, llm |-> "none",
                  raised |-> FALSE, active_before |-> active_agents,
                  result |-> NoResult]

\* process_user_input from its first line to the await of chat_completion
ProcessUserInput ==
    /\ submits.pc # "llm"
    /\ submits.n < MaxInputs
    /\ LET turn == [role |-> "user", id |-> submits.next_id]
           history == Remembered(conversation_history, turn)
       IN  /\ conversation_history' = history
           /\ submits' = [submits EXCEPT
                  !.n = @ + 1, !.pc = "llm", !.next_id = @ + 1,
                  !.user = turn.id,
                  !.messages = <<SystemTurn>> \o LastN(history, max_history),
                  !.built_first = submits.first_id,
                  !.intent = "none", !.action = "none", !.dispatches = 0, !.llm = "none",
                  !.raised = FALSE, !.active_before = active_agents,
                  !.result = NoResult]
    /\ UNCHANGED <<agent_vars, llm_vars, bus_vars, intent_vars, provider_vars, coder_vars, computer_vars>>

\* the except branch, or the exception leaving process_user_input
Failed(sub, e) ==
    IF Caught(e)
    THEN [sub EXCEPT !.pc = "done", !.result = [NoResult EXCEPT !.type = "error"]]
    ELSE [sub EXCEPT !.pc = "done", !.raised = TRUE]

\* process_user_input after invoke_agent ended as the call record c says
Dispatched(sub, T, ws, c) ==
    IF c.pc # "done" THEN [sub EXCEPT !.pc = "dispatch"]
    ELSE IF c.result = "response"
    THEN [sub EXCEPT !.pc = "done",
                     !.result = [type |-> "agent_response", agent_type |-> T,
                                 content |-> ws, agent_result |-> c.result]]
    ELSE Failed(sub, c.result)

\* process_user_input from the end of chat_completion to its return
LLMReturns(out) ==
    /\ submits.pc = "llm"
    /\ IF out.kind = "raise"
       THEN /\ submits' = Failed([submits EXCEPT !.llm = "raise"], "Exception")
            /\ UNCHANGED <<conversation_history, agent_vars, coder_vars, computer_vars>>
       ELSE LET turn == [role |-> "assistant", id |-> submits.next_id]
                info == extract_agent_action(Joined(out.words))
                sub == [submits EXCEPT !.next_id = @ + 1, !.llm = "response",
                                       !.intent = info.agent_type,
                                       !.action = info.action]
            IN  /\ conversation_history' = Remembered(conversation_history, turn)
                /\ IF info.agent_type # "assistant"
                   THEN LET r == InvokeBegin(NewCall("invoke", info.agent_type),
                                             info.action)
                        IN  /\ active_agents' = r.active
                            /\ instances' = r.insts
                            /\ removals' = r.removals
                            /\ calls' = Append(calls, r.call)
                            /\ UNCHANGED <<agent_classes, reg_log>>
                            /\ submits' = Dispatched([sub EXCEPT !.dispatches = @ + 1],
                                                     info.agent_type, out.words, r.call)
                   ELSE /\ submits' = [sub EXCEPT !.pc = "done",
                               !.result = [NoResult EXCEPT !.type = "direct_response",
                                                           !.content = out.words]]
                        /\ UNCHANGED agent_vars
    /\ UNCHANGED <<llm_vars, bus_vars, intent_vars, provider_vars, coder_vars, computer_vars>>

\* clear_conversation
ClearConversation ==
    /\ conversation_history # <<>>
    /\ conversation_history' = <<>>
    /\ submits' = [submits EXCEPT !.first_id = submits.next_id]
    /\ UNCHANGED <<agent_vars, llm_vars, bus_vars, intent_vars, provider_vars, coder_vars, computer_vars>>

InputNext ==
    \/ ProcessUserInput
    \/ \E out \in LLMResults : LLMReturns(out)
    \/ ClearConversation
    \/ \E i \in DOMAIN instances : InitializeRun(i)

\* ------------------------------------------------------- the coder agent
\* One CoderAgent instance from its construction on. dir_exists says whether
\* the directory made by initialize() is on disk, running counts the child
\* processes the instance spawned that have not exited: a process call may
\* start while another is suspended in communicate().

MaxCoderCalls == 4

\* the attributes CoderAgent.__init__ sets
CoderAttributes == {"logger", "event_manager", "_working_dir", "_execution_process"}

\* the actions CoderAgent.process has a branch for
CoderHandled == {"code_generation", "code_execution", "file_edit"}

CoderActions == CoderHandled \cup {"analyze_code"}

CoderCall(op, action, outcome, status) ==
    [op |-> op, action |-> action, outcome |-> outcome, status |-> status]

\* The directory tempfile.mkdtemp returns, as path components below the root.
WorkingDir == <<"tmp", "wd">>

\* The file_path values of a file_edit context: "" is the empty sequence of
\* components, abs marks a path that begins at the root.
FilePaths ==
    {[abs |-> a, parts |-> ps] :
        a \in {FALSE},
        ps \in {<<>>, <<"f">>, <<"a", "f">>, <<"a", "..", "f">>, <<"..", "f">>,
                <<"..", "..", "etc", "f">>}}
    \cup {[abs |-> TRUE, parts |-> <<"etc", "f">>], [abs |-> TRUE, parts |-> <<"tmp", "wd", "f">>]}

\* pathlib: self._working_dir / file_path. An absolute right operand replaces
\* the left one; ".." components are kept as they are.
PathJoin(dir, path) == IF path.abs THEN path.parts ELSE dir \o path.parts

\* The location the operating system resolves a path of components to.
RECURSIVE Resolved(_, _)
Resolved(done, rest) ==
    IF rest = <<>> THEN done
    ELSE IF Head(rest) = ".."
    THEN Resolved(IF done = <<>> THEN done ELSE SubSeq(done, 1, Len(done) - 1), Tail(rest))
    ELSE Resolved(Append(done, Head(rest)), Tail(rest))

CoderInit ==
    coder_agent = [init |-> "none", working_dir |-> "None", dir_exists |-> FALSE,
             files |-> {},
             execution_process |-> "None", running |-> 0, executions |-> 0,
             n |-> 0,
             last |-> CoderCall("none", "none", "none", "none")]

\* initialize(): tempfile.mkdtemp, self._working_dir = Path(temp_dir)
CoderInitialize ==
    /\ coder_agent.n < MaxCoderCalls
    /\ coder_agent.init = "none"
    /\ coder_agent' = [coder_agent EXCEPT !.init = "done", !.working_dir = "dir",
                              !.dir_exists = TRUE, !.n = @ + 1,
                              !.last = CoderCall("initialize", "none", "return", "none")]
    /\ UNCHANGED <<agent_vars, llm_vars, bus_vars, intent_vars, provider_vars, input_vars, computer_vars>>

\* _execute_code up to its first suspension point. given: the code is not
\* empty; writable: open(temp_file, "w") succeeds on an existing directory;
\* spawnable: create_subprocess_exec finds the interpreter.
ExecuteCode(c, given, writable, spawnable) ==
    LET act == "code_execution" IN
    IF ~given THEN [c EXCEPT !.last = CoderCall("process", act, "return", "error")]
    ELSE IF c.working_dir = "None"
    THEN [c EXCEPT !.last = CoderCall("process", act, "raise", "TypeError")]
    ELSE IF ~(c.dir_exists /\ writable)
    THEN [c EXCEPT !.last = CoderCall("process", act, "raise", "OSError")]
    ELSE IF ~spawnable
    THEN [c EXCEPT !.last = CoderCall("process", act, "return", "error")]
    ELSE [c EXCEPT !.execution_process = "process", !.running = @ + 1,
                   !.executions = @ + 1,
                   !.last = CoderCall("process", act, "pending", "none")]

\* _edit_file: the path arithmetic and the write are inside the try
\* (TypeError on None / path, OSError from mkdir or open); files: the
\* locations written so far
EditFile(c, path, writable) ==
    LET act == "file_edit" IN
    IF path.parts = <<>> THEN [c EXCEPT !.last = CoderCall("process", act, "return", "error")]
    ELSE IF c.working_dir = "None" \/ ~(c.dir_exists /\ writable)
    THEN [c EXCEPT !.last = CoderCall("process", act, "return", "error")]
    ELSE [c EXCEPT !.files = @ \cup {Resolved(<<>>, PathJoin(WorkingDir, path))},
                   !.last = CoderCall("process", act, "return", "success")]

\* process(context)
CoderProcess(action, given, path, writable, spawnable) ==
    /\ coder_agent.n < MaxCoderCalls
    /\ LET c == [coder_agent EXCEPT !.n = @ + 1] IN
       coder_agent' =
          CASE action = "code_generation" ->
                  [c EXCEPT !.last = CoderCall("process", action, "return", "success")]
            [] action = "code_execution" -> ExecuteCode(c, given, writable, spawnable)
            [] action = "file_edit" -> EditFile(c, path, writable)
            [] OTHER -> [c EXCEPT !.last = CoderCall("process", action, "return", "error")]
    /\ UNCHANGED <<agent_vars, llm_vars, bus_vars, intent_vars, provider_vars, input_vars, computer_vars>>

\* process.communicate() returns: the child has exited with returncode rc
CoderChildExits(rc) ==
    /\ coder_agent.running > 0
    /\ coder_agent' = [coder_agent EXCEPT !.running = @ - 1,
                    !.last = CoderCall("process", "code_execution", "return",
                                       IF rc = 0 THEN "success" ELSE "error")]
    /\ UNCHANGED <<agent_vars, llm_vars, bus_vars, intent_vars, provider_vars, input_vars, computer_vars>>

\* cleanup(): the loop reads self.processes; the removal reads
\* self.working_dir inside a try with a bare except
CoderCleaned(c) ==
    IF "processes" \notin CoderAttributes
    THEN [c EXCEPT !.last = CoderCall("cleanup", "none", "raise", "AttributeError")]
    ELSE IF "working_dir" \notin CoderAttributes
    THEN [c EXCEPT !.running = 0,
                   !.last = CoderCall("cleanup", "none", "return", "none")]
    ELSE [c EXCEPT !.running = 0, !.dir_exists = FALSE,
                   !.last = CoderCall("cleanup", "none", "return", "none")]

CoderCleanup ==
    /\ coder_agent.n < MaxCoderCalls
    /\ coder_agent' = CoderCleaned([coder_agent EXCEPT !.n = @ + 1])
    /\ UNCHANGED <<agent_vars, llm_vars, bus_vars, intent_vars, provider_vars, input_vars, computer_vars>>

CoderNext ==
    \/ CoderInitialize
    \/ \E action \in CoderActions, path \in FilePaths, given, writable, spawnable \in BOOLEAN :
          CoderProcess(action, given, path, writable, spawnable)
    \/ \E rc \in {0, 1} : CoderChildExits(rc)
    \/ CoderCleanup

\* ---------------------------------------------------- the computer agent
\* One ComputerAgent instance after initialize(). A command is a sequence of
\* words joined by blanks. The disk holds the home directory "/home" and its
\* subdirectories "/home/docs" and "/home/information".

MaxComputerCalls == 3

\* The commands tried, each a sequence of words: none, ordinary ones, directory
\* changes to a directory that exists and to one that does not, and commands
\* holding the forbidden "rm -rf" in capitals, alone and behind "cd".
Commands ==
    { <<>>, <<"RM">>, <<"cd">>, <<"-RF", "RM">>,
      <<"cd", "docs">>, <<"cd", "nowhere">>,
      <<"RM", "-RF">>, <<"RM", "-RF", "docs">>, <<"cd", "RM", "-RF">>,
      <<"cd", "information">> }

forbidden_commands ==
    { <<"r", "m", " ", "-", "r", "f">>,
      <<"f", "o", "r", "m", "a", "t">>,
      <<"d", "e", "l", " ", "/", "f">>,
      <<"d", "e", "l", "t", "r", "e", "e">> }

\* any(cmd in command.lower() for cmd in forbidden_commands)
Forbidden(command) == \E cmd \in forbidden_commands : Contains(Lowered(command), cmd)

\* str.strip
RECURSIVE Stripped(_)
Stripped(text) ==
    IF text = <<>> THEN text
    ELSE IF Head(text) = " " THEN Stripped(Tail(text))
    ELSE IF text[Len(text)] = " " THEN Stripped(SubSeq(text, 1, Len(text) - 1))
    ELSE text

\* str.startswith
StartsWith(text, prefix) ==
    Len(text) >= Len(prefix) /\ SubSeq(text, 1, Len(prefix)) = prefix

ChangesDirectory(command) == StartsWith(Stripped(command), <<"c", "d", " ">>)

\* Mutant: the directory change is handled before the security check.
Routed_CdFirst(command) ==
    IF command = <<>> THEN "none"
    ELSE IF ChangesDirectory(command) THEN "cd"
    ELSE IF Forbidden(command) THEN "reject"
    ELSE "spawn"

\* _execute_shell_command: the empty test, the security check, then the
\* directory change inside the try, then the subprocess
Routed(command) ==
    IF command = <<>> THEN "none"
    ELSE IF Forbidden(command) THEN "reject"
    ELSE IF ChangesDirectory(command) THEN "cd"
    ELSE "spawn"

\* Mutant: the prefix is not cut off.
NewDir_Whole(command) == Stripped(command)

\* command.strip()[3:].strip()
NewDir(command) ==
    LET stripped == Stripped(command) IN Stripped(SubSeq(stripped, 4, Len(stripped)))

\* The directory a change to new_dir leads to from cursor cur, "none" when
\* os.path.isdir says there is no such directory.
Target(cur, new_dir) ==
    IF cur = "/home" /\ new_dir = Spelling("docs") THEN "/home/docs"
    ELSE IF cur = "/home" /\ new_dir = Spelling("information") THEN "/home/information"
    ELSE "none"

\* _read_file: the size test is in bytes, 1024 * 1024
ReadCeiling == 1048576

\* The files read: chars characters, each stored in width bytes.
Files ==
    {[chars |-> n, width |-> w] :
        n \in {0, 600000, ReadCeiling - 1, ReadCeiling, ReadCeiling + 1, 2 * ReadCeiling},
        w \in {1, 2}}

\* os.path.getsize
SizeOf(file) == file.chars * file.width

\* open(path, 'r').read(n), read() for n = -1: characters, not bytes
ReadChars(file, n) == IF n >= 0 /\ n < file.chars THEN n ELSE file.chars

\* _read_file on an existing regular file
ReadFile(file) ==
    IF SizeOf(file) > ReadCeiling
    THEN [notice |-> TRUE, chars |-> ReadChars(file, ReadCeiling)]
    ELSE [notice |-> FALSE, chars |-> ReadChars(file, -1)]

\* the actions ComputerAgent.process has a branch for
ComputerHandled == {"execute_command", "list_files", "read_file"}

ComputerCall(op, ws, result, spawned, cur) ==
    [op |-> op, words |-> ws, result |-> result, spawned |-> spawned,
     cursor_before |-> cur, file |-> [chars |-> 0, width |-> 1],
     read |-> [notice |-> FALSE, chars |-> 0]]

\* initialize(): processes = [], current_directory = the home directory
ComputerInit ==
    computer_agent = [current_directory |-> "/home", processes |-> 0, running |-> 0,
                      n |-> 0,
                      last |-> ComputerCall("none", <<>>, "none", FALSE, "/home")]

\* process({"action": "execute_command", "command": ws}) up to its first
\* suspension point; spawnable: create_subprocess_shell succeeds
ExecuteCommand(ws, spawnable) ==
    /\ computer_agent.n < MaxComputerCalls
    /\ computer_agent.running = 0
    /\ LET command == Joined(ws)
           cur == computer_agent.current_directory
           route == Routed(command)
           c == [computer_agent EXCEPT !.n = @ + 1]
           call(result, spawned) == ComputerCall("execute_command", ws, result, spawned, cur)
       IN  computer_agent' =
             CASE route = "none" -> [c EXCEPT !.last = call("no_command", FALSE)]
               [] route = "reject" -> [c EXCEPT !.last = call("rejected", FALSE)]
               [] route = "cd" ->
                     IF Target(cur, NewDir(command)) # "none"
                     THEN [c EXCEPT !.current_directory = Target(cur, NewDir(command)),
                                    !.last = call("changed", FALSE)]
                     ELSE [c EXCEPT !.last = call("not_found", FALSE)]
               [] OTHER ->
                     IF spawnable
                     THEN [c EXCEPT !.processes = @ + 1, !.running = @ + 1,
                                    !.last = call("pending", TRUE)]
                     ELSE [c EXCEPT !.last = call("execution_error", FALSE)]
    /\ UNCHANGED <<agent_vars, llm_vars, bus_vars, intent_vars, provider_vars, input_vars, coder_vars>>

\* process.communicate() returns: the child has exited with returncode rc
ComputerChildExits(rc) ==
    /\ computer_agent.running > 0
    /\ computer_agent' = [computer_agent EXCEPT !.running = @ - 1,
                             !.last.result = IF rc = 0 THEN "output" ELSE "error"]
    /\ UNCHANGED <<agent_vars, llm_vars, bus_vars, intent_vars, provider_vars, input_vars, coder_vars>>

\* process({"action": "read_file", "path": p}), p an existing regular file
ComputerReadFile(file) ==
    /\ computer_agent.n < MaxComputerCalls
    /\ computer_agent.running = 0
    /\ computer_agent' = [computer_agent EXCEPT !.n = @ + 1,
          !.last = [ComputerCall("read_file", <<>>, "content", FALSE,
                                 computer_agent.current_directory)
                       EXCEPT !.file = file, !.read = ReadFile(file)]]
    /\ UNCHANGED <<agent_vars, llm_vars, bus_vars, intent_vars, provider_vars, input_vars, coder_vars>>

ComputerNext ==
    \/ \E ws \in Commands, spawnable \in BOOLEAN : ExecuteCommand(ws, spawnable)
    \/ \E rc \in {0, 1} : ComputerChildExits(rc)
    \/ \E file \in Files : ComputerReadFile(file)

\* ------------------------------------------------------ the specifications
Init == AgentInit /\ LLMInit /\ BusInit /\ IntentInit /\ ProviderInit /\ InputInit /\ CoderInit /\ ComputerInit

Next ==
    \/ \E T \in RegisterTypes, V \in RegisterVariants : RegisterAgent(T, V)
    \/ \E T \in Types, act \in CtxActions : InvokeAgent(T, act)
    \/ \E T \in Types : TerminateAgent(T)
    \/ \E k \in DOMAIN calls : ProcessReturn(k)
    \/ \E k \in DOMAIN calls : CleanupReturn(k)
    \/ \E i \in DOMAIN instances : InitializeRun(i)
    \/ \E i \in DOMAIN instances : InitializeFinish(i)

Spec == Init /\ [][Next]_vars

LLMSpec == Init /\ [][LLMNext]_vars

BusSpec == Init /\ [][BusNext]_vars

IntentSpec == Init /\ [][IntentNext]_vars

InputSpec == Init /\ [][InputNext]_vars

CoderSpec == Init /\ [][CoderNext]_vars

ComputerSpec == Init /\ [][ComputerNext]_vars

\* ------------------------------------------------------------------ claims
InstancesOf(T) == {i \in DOMAIN instances : instances[i].type = T}

Invokes == {k \in DOMAIN calls : calls[k].op = "invoke"}

Terminates == {k \in DOMAIN calls : calls[k].op = "terminate"}

\* The variant the most recent register_agent call of the log gave type T.
RECURSIVE LastRegistered(_, _)
LastRegistered(log, T) ==
    IF log = <<>> THEN NoClass
    ELSE IF log[Len(log)][1] = T THEN log[Len(log)][2]
    ELSE LastRegistered(SubSeq(log, 1, Len(log) - 1), T)

RegistrationsOf(T) == {j \in DOMAIN reg_log : reg_log[j][1] = T}

\* C1: the manager holds at most one live instance per type: every instance
\* ever constructed for a type is the one stored in the live map or was deleted
\* from it (none is constructed and then overwritten), and all dispatches to a
\* type that never lost an instance use one and the same instance.
C1_OneLiveInstancePerType ==
    \A T \in Types :
        /\ Cardinality(InstancesOf(T))
              = removals[T] + (IF active_agents[T] # NoAgent THEN 1 ELSE 0)
        /\ active_agents[T] # NoAgent => active_agents[T] \in InstancesOf(T)
        /\ \A k1, k2 \in Invokes :
              ( /\ calls[k1].type = T /\ calls[k2].type = T
                /\ calls[k1].epoch = 0 /\ calls[k2].epoch = 0
                /\ calls[k1].agent # NoAgent /\ calls[k2].agent # NoAgent )
              => /\ calls[k1].agent = calls[k2].agent
                 /\ (removals[T] = 0 => Cardinality(InstancesOf(T)) = 1)

\* Two dispatches to one type are both suspended in process() on the single
\* instance constructed for it.
C1_Witness ==
    \E k1, k2 \in Invokes :
        /\ k1 # k2
        /\ calls[k1].type = calls[k2].type
        /\ calls[k1].pc = "process" /\ calls[k2].pc = "process"
        /\ calls[k1].agent = calls[k2].agent
        /\ calls[k1].agent # NoAgent
        /\ Cardinality(InstancesOf(calls[k1].type)) = 1

\* C2: process() never starts on an instance whose initialize() has not run to
\* completion.
C2_InitializedBeforeProcess ==
    \A k \in Invokes : calls[k].init_seen \in {"none", "done"}

\* C3: two dispatches to a type with no deletion of its live entry between
\* them run process() on the identical instance, and initialize() is scheduled
\* exactly once for every instance.
C3_ReuseAndInitializeOnce ==
    /\ \A k1, k2 \in Invokes :
          ( /\ calls[k1].type = calls[k2].type
            /\ calls[k1].epoch = calls[k2].epoch
            /\ calls[k1].agent # NoAgent /\ calls[k2].agent # NoAgent )
          => calls[k1].agent = calls[k2].agent
    /\ \A i \in DOMAIN instances : instances[i].scheduled = 1

\* A dispatch returned its response and a later dispatch to the same type, with
\* no deletion in between, got the same instance.
C3_Witness ==
    \E k1, k2 \in Invokes :
        /\ k1 < k2
        /\ calls[k1].type = calls[k2].type
        /\ calls[k1].epoch = calls[k2].epoch
        /\ calls[k1].result = "response"
        /\ calls[k2].agent = calls[k1].agent
        /\ calls[k2].agent # NoAgent
        /\ calls[k2].init_seen # "none"

\* C4: a dispatch to a default type that still has its default variant
\* registered gets an instance: construction does not fail.
C4_DefaultVariantsConstruct ==
    \A k \in Invokes :
        ( /\ calls[k].pc = "done"
          /\ \E j \in DOMAIN DefaultAgents :
                /\ DefaultAgents[j][1] = calls[k].type
                /\ agent_classes[calls[k].type] = DefaultAgents[j][2]
          /\ Cardinality(RegistrationsOf(calls[k].type)) = 1 )
        => /\ calls[k].agent # NoAgent
           /\ calls[k].result # "TypeError"

\* C5: a dispatch to a type that is not registered fails with the unknown-type
\* error (ValueError) and changes neither map, constructs nothing and invokes
\* no initialize, process or cleanup.
C5_UnknownTypeNoEffect ==
    [][ \A T \in Types :
          ( /\ agent_classes[T] = NoClass
            /\ Len(calls') = Len(calls) + 1
            /\ calls'[Len(calls')].op = "invoke"
            /\ calls'[Len(calls')].type = T )
          => /\ calls'[Len(calls')].pc = "done"
             /\ calls'[Len(calls')].result = "ValueError"
             /\ calls'[Len(calls')].agent = NoAgent
             /\ calls'[Len(calls')].init_seen = "none"
             /\ calls'[Len(calls')].cleaned = NoAgent
             /\ UNCHANGED <<agent_classes, active_agents, instances, removals>>
      ]_vars

C5_Witness ==
    \E k \in Invokes :
        /\ calls[k].result = "ValueError"
        /\ agent_classes[calls[k].type] = NoClass

\* C6: a terminate that found a live instance invoked its cleanup, removed the
\* type from the live map, returned true and left the type registered.
C6_TerminateLive ==
    \A k \in Terminates :
        (calls[k].pc = "done" /\ calls[k].cleaned # NoAgent)
        => /\ calls[k].result = "True"
           /\ instances[calls[k].cleaned].cleanups >= 1
           /\ active_agents[calls[k].type] # calls[k].cleaned
           /\ agent_classes[calls[k].type] # NoClass

\* C7: a terminate of a type with no live instance returns false, raises
\* nothing, invokes no cleanup and leaves both maps as they were.
C7_TerminateNothing ==
    [][ \A T \in Types :
          ( /\ active_agents[T] = NoAgent
            /\ Len(calls') = Len(calls) + 1
            /\ calls'[Len(calls')].op = "terminate"
            /\ calls'[Len(calls')].type = T )
          => /\ calls'[Len(calls')].pc = "done"
             /\ calls'[Len(calls')].result = "False"
             /\ calls'[Len(calls')].cleaned = NoAgent
             /\ UNCHANGED <<agent_classes, active_agents, instances, removals>>
      ]_vars

\* A terminate returned false for a type whose instance had been terminated,
\* one for a registered type never dispatched, or one for an unregistered type.
C7_Witness ==
    \E k \in Terminates :
        /\ calls[k].result = "False"
        /\ removals[calls[k].type] >= 1
        /\ agent_classes[calls[k].type] # NoClass

\* C8: a failure raised by cleanup() is not propagated by terminate, and the
\* type is removed from the live map all the same.
C8_CleanupFailureSwallowed ==
    \A k \in Terminates :
        ( /\ calls[k].pc = "done"
          /\ calls[k].cleaned # NoAgent
          /\ CleanupRaises(instances[calls[k].cleaned]) )
        => /\ calls[k].result \in {"True", "False"}
           /\ active_agents[calls[k].type] # calls[k].cleaned

\* C9: an instance is constructed from the variant of the latest register call
\* for its type.
C9_LastRegistrationWins ==
    [][ Len(instances') = Len(instances) + 1
        => instances'[Len(instances')].variant
              = LastRegistered(reg_log, instances'[Len(instances')].type)
      ]_vars

\* An instance of a type registered twice, with different variants, was built
\* from the second.
C9_Witness ==
    \E i \in DOMAIN instances :
        LET regs == RegistrationsOf(instances[i].type) IN
        /\ Cardinality(regs) = 2
        /\ \E j1, j2 \in regs :
              /\ j1 < j2
              /\ reg_log[j1][2] # reg_log[j2][2]
              /\ instances[i].variant = reg_log[j2][2]

\* C10: when a dispatch returns its response, an instance with auto_terminate
\* has been cleaned up by that dispatch and is out of the live map, and an
\* instance without it is still the live instance of its type.
C10_AutoTerminate ==
    [][ \A k \in DOMAIN calls' :
          ( /\ calls'[k].op = "invoke"
            /\ calls'[k].result = "response"
            /\ (k \in DOMAIN calls => calls[k].pc # "done") )
          => IF AutoTerminate(instances'[calls'[k].agent].variant)
             THEN /\ calls'[k].cleaned = calls'[k].agent
                  /\ active_agents'[calls'[k].type] # calls'[k].agent
             ELSE active_agents'[calls'[k].type] = calls'[k].agent
      ]_vars

\* C11: two dispatches to one type never run process() at the same time on the
\* shared instance; only dispatches to distinct types overlap.
C11_ProcessSerialized ==
    \A k1, k2 \in Invokes :
        ( /\ calls[k1].pc = "process" /\ calls[k2].pc = "process"
          /\ calls[k1].agent = calls[k2].agent )
        => k1 = k2

Count(seq, x) == Cardinality({j \in DOMAIN seq : seq[j] = x})

AllTransient(outs) ==
    \A j \in DOMAIN outs : outs[j] \in {"TimeoutError", "ConnectionError"}

\* C12: a completion whose provider fails with a transient error on every
\* attempt makes three attempts, one at a time, then raises the terminal error;
\* no completion makes a fourth attempt, and such a one returns no response.
C12_ThreeAttemptsThenRaise ==
    \A k \in DOMAIN completions :
        LET c == completions[k] IN
        /\ Len(c.outcomes) <= 3
        /\ Count(c.events, "llm_request_start") - Len(c.outcomes)
              = (IF c.pc = "sending" THEN 1 ELSE 0)
        /\ AllTransient(c.outcomes) => c.result # "response"
        /\ (c.pc = "done" /\ AllTransient(c.outcomes))
              => (Len(c.outcomes) = 3 /\ c.result = "Exhausted")

C12_Witness ==
    \E k \in DOMAIN completions :
        /\ completions[k].pc = "done"
        /\ Len(completions[k].outcomes) = 3
        /\ AllTransient(completions[k].outcomes)
        /\ completions[k].result = "Exhausted"

C14_PermanentNotRetried ==
    \A k \in DOMAIN completions :
        LET c == completions[k] IN
        \A j \in DOMAIN c.outcomes :
            c.outcomes[j] \notin {"response", "TimeoutError", "ConnectionError"}
            => /\ j = Len(c.outcomes)
               /\ Len(c.sleeps) = j - 1
               /\ c.pc = "done"
               /\ c.result = c.outcomes[j]

\* A completion failed transiently, waited, and then failed for good.
C14_Witness ==
    \E k \in DOMAIN completions :
        /\ Len(completions[k].outcomes) = 2
        /\ completions[k].outcomes[2] = "APIError"
        /\ completions[k].result = "APIError"
        /\ Len(completions[k].sleeps) = 1

\* C15: a finished completion has emitted exactly one terminal event:
\* llm_request_complete if and only if it returned a response, llm_error if and
\* only if it raised.
C15_OneTerminalEvent ==
    \A k \in DOMAIN completions :
        LET c == completions[k] IN
        c.pc = "done"
        => /\ Count(c.events, "llm_request_complete")
                = (IF c.result = "response" THEN 1 ELSE 0)
           /\ Count(c.events, "llm_error")
                = (IF c.result # "response" THEN 1 ELSE 0)

Ids(lst) == {lst[j].id : j \in DOMAIN lst}

InSubscriptionOrder(lst) ==
    \A i, j \in DOMAIN lst : i < j => lst[i].id < lst[j].id

\* C16: when a publish has returned, every handler that was subscribed to the
\* event at the time of the call, and is subscribed still, has been invoked,
\* whether or not a handler before it failed.
C16_EverySubscriberInvoked ==
    \A k \in DOMAIN emits :
        emits[k].pc = "done"
        => \A id \in Ids(emits[k].snapshot) :
               id \in Ids(event_handlers[emits[k].event]) => id \in Ids(emits[k].invoked)

\* C17: the handlers of an event are kept, and invoked by every publish, in the
\* order of their subscription, whatever subscribe and unsubscribe calls came
\* before.
C17_SubscriptionOrder ==
    /\ \A e \in DOMAIN event_handlers : InSubscriptionOrder(event_handlers[e])
    /\ \A k \in DOMAIN emits :
          /\ InSubscriptionOrder(emits[k].snapshot)
          /\ InSubscriptionOrder(emits[k].invoked)

\* A publish that came after an unsubscribe took a handler away invoked two
\* handlers or more.
C17_Witness ==
    \E k \in DOMAIN emits :
        /\ emits[k].pc = "done"
        /\ emits[k].removed_before >= 1
        /\ Len(emits[k].invoked) >= 2

\* C18: an unsubscribe(e, h) call made when h is not subscribed to e, the case
\* of e having no handler list included, raises nothing and changes the
\* subscriptions of no event.
C18_UnsubscribeAbsentNoOp ==
    [][ ( /\ bus_calls'.n = bus_calls.n + 1
          /\ bus_calls'.last.op = "unsubscribe"
          /\ \/ bus_calls'.last.event \notin DOMAIN event_handlers
             \/ ~HandlerIn(bus_calls'.last.handler,
                           event_handlers[bus_calls'.last.event]) )
        => ( /\ bus_calls'.last.result = "ok"
             /\ event_handlers' = event_handlers ) ]_vars

\* The last call was an unsubscribe for an event that has no handler list.
C18_Witness ==
    /\ bus_calls.last.op = "unsubscribe"
    /\ bus_calls.last.event \notin DOMAIN event_handlers
    /\ bus_calls.last.result = "ok"

HasWord(ws, w) == \E j \in DOMAIN ws : ws[j] = w

\* what the words of a reply are: the fence, a language name, a programming
\* word, a filesystem word
MeetsCoder(ws) ==
    (HasWord(ws, "fence") /\ HasWord(ws, "Python")) \/ HasWord(ws, "Function")

MeetsComputer(ws) == HasWord(ws, "files")

\* C19: a reply with a code fence and a language name, or with a programming
\* word, resolves to coder; any other reply with a filesystem word resolves to
\* computer; a reply with none of these resolves to assistant.
C19_IntentByCriteria ==
    \A j \in DOMAIN extractions :
        LET ws == extractions[j].words
            got == extractions[j].info.agent_type
        IN /\ MeetsCoder(ws) => got = "coder"
           /\ (~MeetsCoder(ws) /\ MeetsComputer(ws)) => got = "computer"
           /\ (~MeetsCoder(ws) /\ ~MeetsComputer(ws)) => got = "assistant"

\* A reply whose programming word is capitalised has been classified.
C19_Witness ==
    \E j \in DOMAIN extractions :
        /\ HasWord(extractions[j].words, "Function")
        /\ ~HasWord(extractions[j].words, "files")
        /\ extractions[j].info.agent_type = "coder"

\* C20 as stated: a reply that meets both the coder and the computer criteria
\* resolves to assistant.
C20_AmbiguousIsAssistant ==
    \A j \in DOMAIN extractions :
        (MeetsCoder(extractions[j].words) /\ MeetsComputer(extractions[j].words))
        => extractions[j].info.agent_type = "assistant"

\* C20, amended: a reply that meets both the coder and the computer criteria
\* resolves to coder, the coder criteria being tested first; only a reply that
\* meets neither resolves to assistant.
C20_AmbiguousIsCoder ==
    \A j \in DOMAIN extractions :
        LET ws == extractions[j].words
            got == extractions[j].info.agent_type
        IN /\ (MeetsCoder(ws) /\ MeetsComputer(ws)) => got = "coder"
           /\ got = "assistant" => (~MeetsCoder(ws) /\ ~MeetsComputer(ws))

C20_Witness ==
    \E j \in DOMAIN extractions :
        /\ MeetsCoder(extractions[j].words)
        /\ MeetsComputer(extractions[j].words)
        /\ extractions[j].info.agent_type = "coder"

\* C24: a controller constructed without a provider's library or key holds no
\* client for it, and an attempt of a completion on a provider that lacks its
\* library or its client fails with ImportError or KeyError before any backend
\* call, is the last attempt of the call, and is followed by no wait.
C24_UnavailableNotRetried ==
    /\ config_calls.last = "construct"
          => clients = {p \in Providers : p \in Installed /\ p \in settings.keys}
    /\ \A k \in DOMAIN completions :
          LET c == completions[k] IN
          \A j \in DOMAIN c.usable :
              ~c.usable[j]
              => /\ ~c.reached[j]
                 /\ j = Len(c.outcomes)
                 /\ c.outcomes[j] \in {"ImportError", "KeyError"}
                 /\ c.pc = "done"
                 /\ c.result = c.outcomes[j]
                 /\ Len(c.sleeps) = j - 1

\* A completion on a provider whose library is missing has failed, and one on
\* a provider whose key is missing.
C24_Witness ==
    /\ \E k \in DOMAIN completions : completions[k].result = "ImportError"
    /\ \E k \in DOMAIN completions : completions[k].result = "KeyError"

\* C25: once a config_updated event carrying the llm section has been handled,
\* the default provider and model are those of the settings in force, and the
\* providers with a client are those the settings hold a key for.
C25_UpdateApplied ==
    config_calls.last = "config_updated"
    => /\ current_provider = settings.provider
       /\ current_model = settings.model
       /\ clients = {p \in Providers : p \in Installed /\ p \in settings.keys}

\* The latest process_user_input call has returned or raised.
InputDone == submits.n > 0 /\ submits.pc = "done"

\* Some step of the latest call failed: chat_completion raised, or the
\* dispatch it made did.
StepFailed ==
    \/ submits.llm = "raise"
    \/ submits.dispatches > 0 /\ calls[Len(calls)].result # "response"

\* C21: process_user_input raises nothing; its result has one of the types
\* direct_response, agent_response and error, and the type is error exactly
\* when chat_completion or the dispatch failed.
C21_AlwaysATypedResult ==
    InputDone
    => /\ ~submits.raised
       /\ submits.result.type \in {"direct_response", "agent_response", "error"}
       /\ submits.result.type = "error" <=> StepFailed

\* A call whose dispatch failed has returned its result.
C21_Witness ==
    /\ InputDone
    /\ submits.llm = "response"
    /\ submits.dispatches = 1
    /\ calls[Len(calls)].result = "TypeError"
    /\ submits.result.type = "error"

\* C22: a call whose reply resolves to assistant makes no dispatch, leaves the
\* live map as it was and returns a direct result; a call whose reply resolves
\* to coder or computer makes one dispatch, to that type, and returns an agent
\* result holding the reply and the agent's result.
C22_DispatchByIntent ==
    (InputDone /\ submits.llm = "response")
    => IF submits.intent = "assistant"
       THEN /\ submits.dispatches = 0
            /\ active_agents = submits.active_before
            /\ submits.result.type = "direct_response"
       ELSE /\ submits.dispatches = 1
            /\ calls[Len(calls)].type = submits.intent
            /\ submits.result.type = "agent_response"
            /\ submits.result.agent_type = submits.intent
            /\ submits.result.content # <<>>
            /\ submits.result.agent_result # "none"

\* C23: the request sent to the provider is the system turn followed by the
\* latest turns of the history, ten at most, in their order and ending with the
\* user turn just appended; and the history holds every turn appended since it
\* was last cleared.
C23_WindowLeavesHistory ==
    /\ \A j \in DOMAIN conversation_history :
          conversation_history[j].id = submits.first_id + j - 1
    /\ (submits.n > 0 /\ submits.built_first = submits.first_id)
       => LET sent == Tail(submits.messages)
              stored == submits.user - submits.first_id + 1
          IN  /\ submits.messages[1] = SystemTurn
              /\ Len(sent) = IF stored > 10 THEN 10 ELSE stored
              /\ sent[Len(sent)] = [role |-> "user", id |-> submits.user]
              /\ \A j \in DOMAIN sent :
                    /\ sent[j].id = submits.user - (Len(sent) - j)
                    /\ sent[j] = conversation_history[sent[j].id - submits.first_id + 1]

\* A request was built from a history of more than ten turns.
C23_Witness ==
    /\ submits.pc = "llm"
    /\ Len(conversation_history) > 10
    /\ Len(submits.messages) = 11
    /\ submits.built_first = submits.first_id

\* C26: a cleanup() call returns without raising, whatever the instance holds:
\* initialized or not, with or without a working directory or a child process.
C26_CleanupNeverRaises ==
    coder_agent.last.op = "cleanup" => coder_agent.last.outcome = "return"

\* C27: after the cleanup of an instance that was initialized and ran a code
\* execution, its working directory is gone and none of its child processes
\* is running.
C27_CleanupReleases ==
    ( /\ coder_agent.last.op = "cleanup"
      /\ coder_agent.init = "done"
      /\ coder_agent.executions > 0 )
    => /\ ~coder_agent.dir_exists
       /\ coder_agent.running = 0

\* C28: a process() call of the coder agent raises nothing: a failure to write
\* the code file, to spawn the interpreter, or a nonzero exit comes back as a
\* result whose status is error.
C28_ProcessNeverRaises ==
    coder_agent.last.op = "process"
    => /\ coder_agent.last.outcome \in {"return", "pending"}
       /\ coder_agent.last.outcome = "return"
             => coder_agent.last.status \in {"success", "error"}

\* The words of a command hold "rm -rf", in capitals, or "format".
HoldsForbidden(ws) ==
    \/ \E j \in 1..(Len(ws) - 1) : ws[j] = "RM" /\ ws[j + 1] = "-RF"
    \/ \E j \in 1..Len(ws) : ws[j] = "information"

\* C29: an execute_command whose command holds a forbidden substring, in any
\* letter case and also behind the directory-change prefix, is rejected, spawns
\* no subprocess and leaves the current directory as it was.
C29_ForbiddenRejected ==
    ( /\ computer_agent.last.op = "execute_command"
      /\ HoldsForbidden(computer_agent.last.words) )
    => /\ computer_agent.last.result = "rejected"
       /\ ~computer_agent.last.spawned
       /\ computer_agent.current_directory = computer_agent.last.cursor_before

\* A forbidden command behind the directory-change prefix has been rejected.
C29_Witness ==
    /\ computer_agent.last.op = "execute_command"
    /\ computer_agent.last.words = <<"cd", "RM", "-RF">>
    /\ computer_agent.last.result = "rejected"

\* C30: read_file on a file of more than 1 MiB returns the first 1 MiB of it
\* and the truncation notice; on a file of 1 MiB or less it returns the whole
\* content and no notice.
C30_ReadCeiling ==
    computer_agent.last.op = "read_file"
    => LET file == computer_agent.last.file
           read == computer_agent.last.read
       IN  IF file.chars * file.width > 1048576
           THEN read.notice /\ read.chars * file.width = 1048576
           ELSE ~read.notice /\ read.chars = file.chars

\* The words of a command are "cd" and a directory.
CdWords(ws) == Len(ws) >= 2 /\ ws[1] = "cd"

\* The directory the words of a cd command name, seen from cursor cur.
Destination(cur, ws) == Target(cur, Joined(Tail(ws)))

\* C31 as stated: a directory-change command spawns no subprocess, moves the
\* cursor to the target when the target exists and returns an error text with
\* the cursor unchanged when it does not; any other command leaves the cursor
\* unchanged.
C31_CdMovesCursor ==
    computer_agent.last.op = "execute_command"
    => LET call == computer_agent.last
           dest == Destination(call.cursor_before, call.words)
       IN  IF CdWords(call.words)
           THEN /\ ~call.spawned
                /\ IF dest # "none"
                   THEN computer_agent.current_directory = dest
                   ELSE /\ call.result \in {"not_found", "rejected"}
                        /\ computer_agent.current_directory = call.cursor_before
           ELSE computer_agent.current_directory = call.cursor_before

\* C31, amended: a directory-change command that holds no forbidden substring
\* spawns no subprocess, moves the cursor to the target when the target exists
\* and reports the directory as not found, cursor unchanged, when it does not;
\* every other command, a rejected directory change included, leaves the cursor
\* unchanged.
C31_AllowedCdMovesCursor ==
    computer_agent.last.op = "execute_command"
    => LET call == computer_agent.last
           dest == Destination(call.cursor_before, call.words)
       IN  IF CdWords(call.words) /\ ~HoldsForbidden(call.words)
           THEN /\ ~call.spawned
                /\ IF dest # "none"
                   THEN /\ call.result = "changed"
                        /\ computer_agent.current_directory = dest
                   ELSE /\ call.result = "not_found"
                        /\ computer_agent.current_directory = call.cursor_before
           ELSE computer_agent.current_directory = call.cursor_before

\* The cursor has moved into an existing directory.
C31_Witness ==
    /\ computer_agent.last.op = "execute_command"
    /\ computer_agent.last.words = <<"cd", "docs">>
    /\ computer_agent.last.cursor_before = "/home"
    /\ computer_agent.current_directory = "/home/docs"

\* A location lies under the directory dir.
Under(dir, location) ==
    Len(location) > Len(dir) /\ SubSeq(location, 1, Len(dir)) = dir

\* C32: every file the coder agent's file_edit action has written lies under
\* the instance's working directory.
C32_WritesStayInWorkingDir ==
    \A location \in coder_agent.files : Under(WorkingDir, location)

\* C33: no process() is running on an instance whose cleanup() has been
\* called: a terminate that overlaps a dispatch of the same type neither tears
\* down an instance in use nor hands an instance being torn down to a
\* dispatch.
C33_NoProcessDuringCleanup ==
    \A k \in DOMAIN calls :
        (calls[k].op = "invoke" /\ calls[k].pc = "process")
        => instances[calls[k].agent].cleanups = 0

\* C34: two terminate calls of one type that overlap on one live instance
\* whose cleanup suspends call cleanup once; one returns True, the other
\* False, and neither raises.
C34_ConcurrentTerminate ==
    \A j, k \in DOMAIN calls :
        ( /\ j < k
          /\ calls[j].op = "terminate" /\ calls[k].op = "terminate"
          /\ calls[j].type = calls[k].type
          /\ calls[j].epoch = calls[k].epoch
          /\ calls[j].cleaned # NoAgent
          /\ instances[calls[j].cleaned].variant \in {"PlainAgent", "AutoAgent"}
          /\ calls[j].pc = "done" /\ calls[k].pc = "done" )
        => /\ instances[calls[j].cleaned].cleanups = 1
           /\ {calls[j].result, calls[k].result} = {"True", "False"}

\* C35: dispatches of one type between two removals of its instance all use
\* the same instance, whatever has been registered for the type meanwhile; an
\* instance of a class other than the one it was created from is never
\* handed out, so a newly registered class is first used when a dispatch
\* finds no live instance.
C35_RegisterKeepsLiveInstance ==
    \A k \in DOMAIN calls :
        (calls[k].op = "invoke" /\ calls[k].agent # NoAgent)
        => /\ \A j \in 1..(k - 1) :
                ( /\ calls[j].op = "invoke" /\ calls[j].agent # NoAgent
                  /\ calls[j].type = calls[k].type
                  /\ calls[j].epoch = calls[k].epoch )
                => calls[j].agent = calls[k].agent
           /\ instances[calls[k].agent].variant # calls[k].class
              => \E j \in 1..(k - 1) : calls[j].agent = calls[k].agent

\* A dispatch has used the live instance of the class registered before,
\* although another class was registered for its type when it began.
C35_Witness ==
    \E k \in DOMAIN calls :
        /\ calls[k].op = "invoke"
        /\ calls[k].agent # NoAgent
        /\ calls[k].class # instances[calls[k].agent].variant
        /\ active_agents[calls[k].type] = calls[k].agent

\* The number of invocations of subscription id by a publish.
Invocations(em, id) == Cardinality({j \in DOMAIN em.invoked : em.invoked[j].id = id})

\* C36: when a handler invoked by a publish has unsubscribed a handler of the
\* event, every handler that was subscribed when the publish began and has not
\* been unsubscribed has been invoked exactly once when the publish returns.
C36_UnsubscribeDuringPublish ==
    \A k \in DOMAIN emits :
        ( /\ emits[k].pc = "done"
          /\ \E j \in DOMAIN emits[k].invoked :
                /\ HandlerUnsubscribes(emits[k].invoked[j].handler)
                /\ emits[k].invoked[j].id \notin Ids(event_handlers[emits[k].event]) )
        => \A id \in Ids(emits[k].snapshot) \cap Ids(event_handlers[emits[k].event]) :
               Invocations(emits[k], id) = 1

\* C37: every attempt of a chat_completion call goes to the provider, model and
\* temperature resolved when the call began, whatever the defaults have become
\* since; a call without overrides resolves to the defaults in force when it
\* begins.
C37_TargetsResolvedAtStart ==
    \A k \in DOMAIN completions :
        LET c == completions[k] IN
        /\ \A j \in DOMAIN c.targets :
              /\ c.targets[j] = c.targets[1]
              /\ c.targets[j].provider = c.provider
              /\ c.targets[j].model = c.model
              /\ c.targets[j].temperature = c.temperature
        /\ (c.targets # <<>> /\ ~c.overridden) => c.targets[1] = c.defaults[1]

\* A call made a further attempt after the default provider, model and
\* temperature had all changed, and sent it where the first attempt went.
C37_Witness ==
    \E k \in DOMAIN completions :
        LET c == completions[k] IN
        /\ Len(c.targets) >= 2
        /\ ~c.overridden
        /\ c.defaults[2].provider # c.defaults[1].provider
        /\ c.defaults[2].model # c.defaults[1].model
        /\ c.defaults[2].temperature # c.defaults[1].temperature
        /\ c.targets[2] = c.defaults[1]

\* C38: a chat_completion call that has ended waited once between each two of
\* its attempts and not after the last: the waits are one fewer than the
\* attempts, also when the third attempt failed.
C38_WaitsBetweenAttempts ==
    \A k \in DOMAIN completions :
        (completions[k].pc = "done" /\ completions[k].outcomes # <<>>)
        => Len(completions[k].sleeps) = Len(completions[k].outcomes) - 1

\* No turn of the history lost its question to a clear_conversation that ran
\* while the answer was awaited: calls were made one at a time.
OneAtATime ==
    \A i \in DOMAIN conversation_history :
        conversation_history[i].role = "assistant"
        => \E j \in DOMAIN conversation_history :
               conversation_history[j].id = conversation_history[i].id - 1

\* C39: between process_user_input and clear_conversation calls made one at a
\* time, the stored history alternates user and assistant turns and begins
\* with a user turn, also after calls whose provider request failed.
C39_HistoryAlternates ==
    (submits.pc \in {"idle", "done"} /\ OneAtATime)
    => \A i \in DOMAIN conversation_history :
           conversation_history[i].role = IF i % 2 = 1 THEN "user" ELSE "assistant"

\* C40: the action of every task context process_user_input has dispatched is
\* one the process method of the agent it went to has a branch for, so no
\* dispatch ends in the unknown-action or unsupported-action result.
C40_DispatchedActionHandled ==
    submits.dispatches > 0
    => /\ submits.intent = "coder" => submits.action \in CoderHandled
       /\ submits.intent = "computer" => submits.action \in ComputerHandled

====
